---- MODULE Spec2Model ----
(***************************************************************************)
(* A model of easymod.core.Module: the bridge between Python and the       *)
(* environment-modules `module` command.                                   *)
(*                                                                         *)
(* Text is modelled as a sequence of one-character strings so that the     *)
(* index arithmetic of the manual-page parser and the file-name pattern    *)
(* of the init-script search are computed as the code computes them.       *)
(* The Python value None is modelled by the string "None" among string     *)
(* valued arguments; no modelled path or name is spelled that way.         *)
(***************************************************************************)
EXTENDS Integers, Sequences, FiniteSets, TLC

None == "None"

\* A Python dict is a function with a dynamic domain.
EmptyDict == [k \in {} |-> k]

Put(d, k, v) == [n \in DOMAIN d \cup {k} |-> IF n = k THEN v ELSE d[n]]

Update(d, e) == [n \in DOMAIN d \cup DOMAIN e |-> IF n \in DOMAIN e THEN e[n] ELSE d[n]]

Remove(d, k) == [n \in DOMAIN d \ {k} |-> d[n]]

SetMin(S) == CHOOSE x \in S : \A y \in S : x <= y

----------------------------------------------------------------------------
(* Bounds of the model *)

\* longest manual page, in fragments, that the parser is run on
MaxFrags == 4

\* most positional arguments of a forwarded call
MaxArgs == 2

----------------------------------------------------------------------------
(* Python string primitives, 0-based as in the code *)

\* str.find: lowest index of sub in s, or -1
Find(s, sub) ==
    LET hits == {i \in 0..(Len(s) - Len(sub)) :
                    s[i + 1] = sub[1] /\ SubSeq(s, i + 1, i + Len(sub)) = sub}
    IN  IF hits = {} THEN -1 ELSE SetMin(hits)

\* a slice index as Python normalises it against a string of length n
SliceIndex(k, n) ==
    IF k < 0 THEN (IF k + n < 0 THEN 0 ELSE k + n)
    ELSE (IF k > n THEN n ELSE k)

\* s[a:b]
Slice(s, a, b) == SubSeq(s, SliceIndex(a, Len(s)) + 1, SliceIndex(b, Len(s)))

\* s[a:]
SliceFrom(s, a) == SubSeq(s, SliceIndex(a, Len(s)) + 1, Len(s))

RECURSIVE Join(_)
\* the str made of a sequence of characters
Join(cs) == IF cs = <<>> THEN "" ELSE Head(cs) \o Join(Tail(cs))

Upper == {"A", "B", "C", "D", "E", "F", "G", "H", "I", "J", "K", "L", "M",
          "N", "O", "P", "Q", "R", "S", "T", "U", "V", "W", "X", "Y", "Z"}

Lower == {"a", "b", "c", "d", "e", "f", "g", "h", "i", "j", "k", "l", "m",
          "n", "o", "p", "q", "r", "s", "t", "u", "v", "w", "x", "y", "z"}

Digits == {"0", "1", "2", "3", "4", "5", "6", "7", "8", "9"}

\* the character class [\w|-] of the sub-command pattern
SubCommandClass == Upper \cup Lower \cup Digits \cup {"_", "|", "-"}

\* the character class [A-Z|-|_] of the environment-variable pattern:
\* the range A-Z, the one-character range |-| and the underscore
EnvironmentClass == Upper \cup {"|", "_"}

\* the literal part  sp\n\\fB  that follows the leading wildcard
EntryPrefix == <<"s", "p", "\n", "\\", "f", "B">>

\* the literal part  \\fP  that closes an entry
EntrySuffix == <<"\\", "f", "P">>

\* length of the longest run of class characters of s starting at index j (1-based)
RunLen(s, j, class) ==
    LET stops == {t \in j..Len(s) : s[t] \notin class}
    IN  IF stops = {} THEN Len(s) - j + 1 ELSE SetMin(stops) - j

\* the pattern  .sp\n\\fB(class+)\\fP  matched at index i (1-based):
\* the index of the last matched character, or 0 when there is no match.
\* The class excludes the backslash, so only the longest run can be followed
\* by the suffix.
MatchEnd(s, i, class) ==
    LET k == RunLen(s, i + 7, class)
    IN  IF /\ i + 7 <= Len(s)
           /\ s[i] # "\n"
           /\ s[i + 1] = "s"
           /\ SubSeq(s, i + 1, i + 6) = EntryPrefix
           /\ k >= 1
           /\ i + 9 + k <= Len(s)
           /\ SubSeq(s, i + 7 + k, i + 9 + k) = EntrySuffix
        THEN i + 9 + k
        ELSE 0

RECURSIVE FindAllFrom(_, _, _)
FindAllFrom(s, i, class) ==
    IF i > Len(s) THEN <<>>
    ELSE LET e == MatchEnd(s, i, class)
         IN  IF e = 0
             THEN FindAllFrom(s, i + 1, class)
             ELSE <<Join(SubSeq(s, i + 7, e - 3))>> \o FindAllFrom(s, e + 1, class)

\* re.findall of the entry pattern: the captured tokens, left to right
FindAll(s, class) == FindAllFrom(s, 1, class)

----------------------------------------------------------------------------
(* Manual pages *)

SubCommandsMarker ==
    <<".", "S", "S", " ", "M", "o", "d", "u", "l", "e", " ", "S", "u", "b",
      "\\", "-", "C", "o", "m", "m", "a", "n", "d", "s">>

SSMarker == <<".", "S", "S">>

EnvironmentMarker ==
    <<".", "S", "H", " ", "E", "N", "V", "I", "R", "O", "N", "M", "E", "N", "T">>

SMarker == <<"\n", ".", "S">>

\* A manual page is written as a sequence of fragments; its text is their
\* concatenation.
FragmentText ==
    [ SubHeader |-> SubCommandsMarker \o <<"\n">>,
      OtherSS   |-> <<".", "S", "S", " ", "M", "o", "d", "u", "l", "e", "f", "i", "l", "e", "s", "\n">>,
      EnvHeader |-> EnvironmentMarker \o <<"\n">>,
      OtherSH   |-> <<".", "S", "H", " ", "F", "I", "L", "E", "S", "\n">>,
      EntryA    |-> <<".", "s", "p", "\n", "\\", "f", "B", "A", "\\", "f", "P", "\n">>,
      EntryBC   |-> <<".", "s", "p", "\n", "\\", "f", "B", "B", "-", "C", "\\", "f", "P", "\n">>,
      EntryFOO  |-> <<".", "s", "p", "\n", "\\", "f", "B", "F", "O", "O", "\\", "f", "P", "\n">>,
      Text      |-> <<"t", "e", "x", "t", "\n">> ]

Fragments == DOMAIN FragmentText

Headers == {"SubHeader", "OtherSS", "EnvHeader", "OtherSH"}

\* the token an entry fragment carries
EntryToken == [EntryA |-> "A", EntryBC |-> "B-C", EntryFOO |-> "FOO"]

RECURSIVE ManText(_)
ManText(doc) == IF doc = <<>> THEN <<>> ELSE FragmentText[Head(doc)] \o ManText(Tail(doc))

----------------------------------------------------------------------------
(* Class attributes of Module *)

DefaultSubCommands ==
    << "help", "add", "load", "rm", "unload", "swap", "switch", "show",
       "display", "list", "avail", "aliases", "use", "unuse", "refresh",
       "reload", "purge", "clear", "source", "whatis", "apropos", "keyword",
       "search", "test", "save", "restore", "saverm", "saveshow", "savelist",
       "initadd", "initprepend", "initrm", "initswitch", "initlist",
       "initclear", "path", "paths", "config" >>

DefaultEnvironmentVariables ==
    << "LOADEDMODULES", "MODULECONTACT", "MODULEPATH", "MODULERCFILE",
       "MODULESHOME", "MODULES_AUTO_HANDLING", "MODULES_AVAIL_INDEPTH",
       "MODULES_CMD", "MODULES_COLLECTION_PIN_VERSION",
       "MODULES_COLLECTION_TARGET", "MODULES_COLOR", "CLICOLOR",
       "MODULES_COLORS", "MODULES_IMPLICIT_DEFAULT", "MODULES_LMALTNAME",
       "MODULES_LMCONFLICT", "MODULES_LMNOTUASKED", "MODULES_LMPREREQ",
       "MODULES_PAGER", "MODULES_RUN_QUARANTINE", "MODULES_SEARCH_MATCH",
       "MODULES_SET_SHELL_STARTUP", "MODULES_SILENT_SHELL_DEBUG",
       "MODULES_SITECONFIG", "MODULES_TERM_BACKGROUND",
       "MODULES_UNLOAD_MATCH_ORDER", "MODULES_USE_COMPAT_VERSION",
       "MODULES_VERBOSITY", "_LMFILES_" >>

\* the data attributes of the class object
ClassDict ==
    [ sub_commands |-> DefaultSubCommands,
      envinronment_variables |-> DefaultEnvironmentVariables ]

\* every name defined on the class (and on object): these are found by the
\* normal attribute lookup, so __getattr__ is never consulted for them
ClassMembers ==
    { "sub_commands", "envinronment_variables", "__init__", "set_init_file",
      "parse_man_file", "get_sub_commands", "get_environment_variables",
      "__getattr__", "environ", "__class__", "__dict__" }

Range(f) == {f[x] : x \in DOMAIN f}

----------------------------------------------------------------------------
(* The filesystem the model runs on *)

\* Every regular file: its path, the directories leading to it and the
\* characters of its name.
Files ==
    { [path |-> "/h0/init/bash.py", dirs |-> <<"h0", "init">>,
       name |-> <<"b", "a", "s", "h", ".", "p", "y">>],
      [path |-> "/h0/etc/python.py", dirs |-> <<"h0", "etc">>,
       name |-> <<"p", "y", "t", "h", "o", "n", ".", "p", "y">>],
      [path |-> "/h0/init/python.txt", dirs |-> <<"h0", "init">>,
       name |-> <<"p", "y", "t", "h", "o", "n", ".", "t", "x", "t">>],
      [path |-> "/h1/sub/init/modpython3.py", dirs |-> <<"h1", "sub", "init">>,
       name |-> <<"m", "o", "d", "p", "y", "t", "h", "o", "n", "3", ".", "p", "y">>],
      [path |-> "/h1/share/man/man1/module.1", dirs |-> <<"h1", "share", "man", "man1">>,
       name |-> <<"m", "o", "d", "u", "l", "e", ".", "1">>],
      [path |-> "/h2/init/python.py", dirs |-> <<"h2", "init">>,
       name |-> <<"p", "y", "t", "h", "o", "n", ".", "p", "y">>],
      [path |-> "/h2/init/envpython.py", dirs |-> <<"h2", "init">>,
       name |-> <<"e", "n", "v", "p", "y", "t", "h", "o", "n", ".", "p", "y">>],
      [path |-> "/h3/init/python.py", dirs |-> <<"h3", "init">>,
       name |-> <<"p", "y", "t", "h", "o", "n", ".", "p", "y">>],
      [path |-> "/opt/custom_init.py", dirs |-> <<"opt">>,
       name |-> <<"c", "u", "s", "t", "o", "m", "_", "i", "n", "i", "t", ".", "p", "y">>],
      [path |-> "/tmp/alt.1", dirs |-> <<"tmp">>,
       name |-> <<"a", "l", "t", ".", "1">>] }

Homes == {"/h0", "/h1", "/h2", "/h3"}

\* pathlib.Path(home).parts without the root
PartsOf(home) ==
    CASE home = "/h0" -> <<"h0">>
      [] home = "/h1" -> <<"h1">>
      [] home = "/h2" -> <<"h2">>
      [] home = "/h3" -> <<"h3">>
      [] OTHER -> <<home>>

\* Path.exists()
Exists(path) == \E f \in Files : f.path = path

\* fnmatch of a file name against  *python*.py
FnMatch(name) ==
    \E i \in 1..(Len(name) - 8) :
        /\ SubSeq(name, i, i + 5) = <<"p", "y", "t", "h", "o", "n">>
        /\ SubSeq(name, Len(name) - 2, Len(name)) = <<".", "p", "y">>

\* home.glob("**/init/*python*.py"): the files, any depth below home, whose
\* directory is named init and whose name matches
Glob(home) ==
    { f.path : f \in
        { g \in Files :
            /\ Len(g.dirs) > Len(PartsOf(home))
            /\ SubSeq(g.dirs, 1, Len(PartsOf(home))) = PartsOf(home)
            /\ g.dirs[Len(g.dirs)] = "init"
            /\ FnMatch(g.name) } }

\* What executing an init script does: the top-level names it defines and
\* the process-environment variables it sets.
ScriptEffect(path) ==
    CASE path \in {"/h1/sub/init/modpython3.py", "/h2/init/python.py", "/h2/init/envpython.py"} ->
            [defines |-> [module |-> "d1"], environ |-> [MODULESHOME |-> "/h1"]]
      [] path = "/opt/custom_init.py" ->
            [defines |-> [module |-> "d2"], environ |-> EmptyDict]
      [] OTHER ->
            [defines |-> EmptyDict, environ |-> EmptyDict]

\* The dispatcher functions the init scripts define.  A dispatcher is
\* opaque to the bridge; its return value is modelled by the record of what
\* it was called with.
DispatcherReturn(d, pos, kw) == [by |-> d, pos |-> pos, kw |-> kw]

\* The effect of a dispatcher invocation on the process environment.
DispatcherEnviron(d, env, pos, kw) ==
    IF d = "d1" /\ pos[1] = "load" /\ Len(pos) >= 2
    THEN Put(env, "LOADEDMODULES", pos[2])
    ELSE env

----------------------------------------------------------------------------
(* State *)

VARIABLES
    osenv,        \* os.environ: the process environment, a dict
    coreGlobals,  \* the entry "module" (if any) of globals() of easymod.core
    cls,          \* the data attributes of class Module
    inst,         \* the __dict__ of each Module object
    manDoc,       \* the content of the manual file /tmp/alt.1, in fragments
    held,         \* the forwarding callable the caller last obtained
    ret           \* what the last operation did and returned

vars == <<osenv, coreGlobals, cls, inst, manDoc, held, ret>>

\* the Module objects a run may create
Objects == {"m1", "m2"}

\* __init__ ran to its end on this object
Constructed(self) == "module" \in DOMAIN self

\* a data attribute as Python looks it up: the instance, then the class
Attr(self, class, name) == IF name \in DOMAIN self THEN self[name] ELSE class[name]

----------------------------------------------------------------------------
(* Construction *)

\* faulty variant: takes one candidate when several match
set_init_file_first(self, init_file) ==
    IF init_file # None
    THEN [ self   |-> Put(self, "init_file", init_file),
           exc    |-> IF Exists(init_file) THEN "none" ELSE "FileNotFoundError",
           listed |-> IF Exists(init_file) THEN {} ELSE {init_file},
           fs     |-> <<[op |-> "exists", path |-> init_file]>> ]
    ELSE LET possible_init_files == Glob(self.modules_home)
             fs == <<[op |-> "glob", path |-> self.modules_home]>>
         IN  IF Cardinality(possible_init_files) = 0
             THEN [self |-> self, exc |-> "FileNotFoundError", listed |-> {}, fs |-> fs]
             ELSE [ self   |-> Put(self, "init_file", CHOOSE p \in possible_init_files : TRUE),
                    exc    |-> "none", listed |-> {}, fs |-> fs ]

\* Module.set_init_file: the object afterwards, the exception raised (or
\* "none"), the paths the exception message lists, the filesystem accesses
set_init_file(self, init_file) ==
    IF init_file # None
    THEN [ self   |-> Put(self, "init_file", init_file),
           exc    |-> IF Exists(init_file) THEN "none" ELSE "FileNotFoundError",
           listed |-> IF Exists(init_file) THEN {} ELSE {init_file},
           fs     |-> <<[op |-> "exists", path |-> init_file]>> ]
    ELSE LET possible_init_files == Glob(self.modules_home)
             fs == <<[op |-> "glob", path |-> self.modules_home]>>
         IN  IF Cardinality(possible_init_files) = 0
             THEN [self |-> self, exc |-> "FileNotFoundError", listed |-> {}, fs |-> fs]
             ELSE IF Cardinality(possible_init_files) > 1
             THEN [self |-> self, exc |-> "ValueError", listed |-> possible_init_files, fs |-> fs]
             ELSE [ self   |-> Put(self, "init_file", CHOOSE p \in possible_init_files : TRUE),
                    exc    |-> "none", listed |-> {}, fs |-> fs ]

\* faulty variant: falls back to a fixed directory when MODULESHOME is unset
ResolveHome_fallback(env, home) ==
    IF home # None
    THEN [self |-> [modules_home |-> home], exc |-> "none", listed |-> {}]
    ELSE IF "MODULESHOME" \in DOMAIN env
    THEN [self |-> [modules_home |-> env["MODULESHOME"]], exc |-> "none", listed |-> {}]
    ELSE [self |-> [modules_home |-> "/h2"], exc |-> "none", listed |-> {}]

\* the first statement of __init__: the home directory from the argument or
\* from MODULESHOME
ResolveHome(env, home) ==
    IF home # None
    THEN [self |-> [modules_home |-> home], exc |-> "none", listed |-> {}]
    ELSE IF "MODULESHOME" \in DOMAIN env
    THEN [self |-> [modules_home |-> env["MODULESHOME"]], exc |-> "none", listed |-> {}]
    ELSE [self |-> EmptyDict, exc |-> "ValueError", listed |-> {"MODULESHOME"}]

\* the rest of __init__ once the init file is set: execute the script in
\* globals() and take the function named module from there
Bootstrap(self, env, glob) ==
    LET script == ScriptEffect(self.init_file)
        g == Update(glob, script.defines)
        e == Update(env, script.environ)
        fs == <<[op |-> "open", path |-> self.init_file],
                [op |-> "exec", path |-> self.init_file]>>
    IN  IF "module" \in DOMAIN g
        THEN [ self |-> Put(self, "module", g.module), exc |-> "none",
               fs |-> fs, environ |-> e, globals |-> g ]
        ELSE [ self |-> self, exc |-> "EnvironmentError",
               fs |-> fs, environ |-> e, globals |-> g ]

\* Module.__init__
ModuleInit(env, glob, home, init_file) ==
    LET h == ResolveHome(env, home)
    IN  IF h.exc # "none"
        THEN [ self |-> h.self, exc |-> h.exc, listed |-> h.listed, fs |-> <<>>,
               environ |-> env, globals |-> glob ]
        ELSE LET r == set_init_file(h.self, init_file)
             IN  IF r.exc # "none"
                 THEN [ self |-> r.self, exc |-> r.exc, listed |-> r.listed, fs |-> r.fs,
                        environ |-> env, globals |-> glob ]
                 ELSE LET b == Bootstrap(r.self, env, glob)
                      IN  [ self |-> b.self, exc |-> b.exc, listed |-> {},
                            fs |-> r.fs \o b.fs,
                            environ |-> b.environ, globals |-> b.globals ]

----------------------------------------------------------------------------
(* Documentation parsing *)

\* the manual page shipped under /h1
DefaultManDoc ==
    << "SubHeader", "EntryA", "Text", "EntryBC", "Text", "OtherSS",
       "EnvHeader", "EntryFOO", "Text", "OtherSH" >>

DefaultManText == ManText(DefaultManDoc)

\* os.path.join(self.modules_home, "share", "man", "man1", "module.1")
\* when no path is passed
ManFilePath(self, man_file) ==
    IF man_file = None
    THEN self.modules_home \o "/share/man/man1/module.1"
    ELSE man_file

\* f.read() of a manual file
ReadMan(path) ==
    IF path = "/tmp/alt.1" THEN ManText(manDoc) ELSE DefaultManText

\* the text between the sub-commands header and the next .SS, as sliced
SubCommandsSection(man) ==
    LET start == Find(man, SubCommandsMarker)
        end == start + Find(SliceFrom(man, start + 3), SSMarker) + 1
    IN  Slice(man, start, end)

\* the text between the environment header and the next line starting .S
EnvironmentSection(man) ==
    LET start == Find(man, EnvironmentMarker)
        end == start + Find(SliceFrom(man, start + 3), SMarker) + 1
    IN  Slice(man, start, end)

\* faulty variant: stores the parsed list on the class
get_sub_commands_on_class(self, class, man_file) ==
    LET path == ManFilePath(self, man_file)
    IN  IF ~Exists(path)
        THEN [self |-> self, cls |-> class, exc |-> "FileNotFoundError"]
        ELSE [ self |-> self,
               cls  |-> Put(class, "sub_commands",
                            FindAll(SubCommandsSection(ReadMan(path)), SubCommandClass)),
               exc  |-> "none" ]

\* Module.get_sub_commands: the object and the class afterwards
get_sub_commands(self, class, man_file) ==
    LET path == ManFilePath(self, man_file)
    IN  IF ~Exists(path)
        THEN [self |-> self, cls |-> class, exc |-> "FileNotFoundError"]
        ELSE [ self |-> Put(self, "sub_commands",
                            FindAll(SubCommandsSection(ReadMan(path)), SubCommandClass)),
               cls  |-> class,
               exc  |-> "none" ]

\* Module.get_environment_variables: the object and the class afterwards
get_environment_variables(self, class, man_file) ==
    LET path == ManFilePath(self, man_file)
    IN  IF ~Exists(path)
        THEN [self |-> self, cls |-> class, exc |-> "FileNotFoundError"]
        ELSE [ self |-> Put(self, "envinronment_variables",
                            FindAll(EnvironmentSection(ReadMan(path)), EnvironmentClass)),
               cls  |-> class,
               exc  |-> "none" ]

\* Module.parse_man_file
parse_man_file(self, class, man_file) ==
    LET r == get_sub_commands(self, class, man_file)
    IN  IF r.exc # "none" THEN r
        ELSE get_environment_variables(r.self, r.cls, man_file)

----------------------------------------------------------------------------
(* Command facade and environment view *)

\* faulty variant: forwards any name
getattr_unchecked(self, class, name) == [kind |-> "wrapper", name |-> name]

\* Module.__getattr__
getattr(self, class, name) ==
    IF \E k \in DOMAIN Attr(self, class, "sub_commands") :
           Attr(self, class, "sub_commands")[k] = name
    THEN [kind |-> "wrapper", name |-> name]
    ELSE [kind |-> "AttributeError", name |-> name]

\* obj.name: intrinsic members are found first, __getattr__ is the fallback
GetAttribute(self, class, name) ==
    IF name \in ClassMembers \cup DOMAIN self
    THEN [kind |-> "member", name |-> name]
    ELSE getattr(self, class, name)

Reverse(s) == [k \in 1..Len(s) |-> s[Len(s) + 1 - k]]

\* faulty variant: passes the positional arguments in reverse order
wrapper_reordered(self, env, name, args, kwargs) ==
    LET pos == <<name>> \o Reverse(args)
    IN  [ invoked |-> <<[disp |-> self.module, pos |-> pos, kw |-> kwargs]>>,
          value   |-> DispatcherReturn(self.module, pos, kwargs),
          environ |-> DispatcherEnviron(self.module, env, pos, kwargs) ]

\* the closure __getattr__ returns, called with args and kwargs:
\* self.module(_name, *args, **kwargs)
wrapper(self, env, name, args, kwargs) ==
    LET pos == <<name>> \o args
    IN  [ invoked |-> <<[disp |-> self.module, pos |-> pos, kw |-> kwargs]>>,
          value   |-> DispatcherReturn(self.module, pos, kwargs),
          environ |-> DispatcherEnviron(self.module, env, pos, kwargs) ]

\* faulty variant: keeps unset names, mapped to None
environ_unfiltered(self, class, env) ==
    [ n \in Range(Attr(self, class, "envinronment_variables")) |->
        IF n \in DOMAIN env THEN env[n] ELSE None ]

\* faulty variant: answers from the environment as first seen
environ_snapshot(self, class, env) ==
    LET seen == [PATH |-> "/bin", FOO |-> "1", MODULESHOME |-> "/h1"]
    IN  [ n \in {v \in Range(Attr(self, class, "envinronment_variables")) : v \in DOMAIN seen}
            |-> seen[n] ]

\* the value of the environ property
environ(self, class, env) ==
    [ n \in {v \in Range(Attr(self, class, "envinronment_variables")) : v \in DOMAIN env}
        |-> env[n] ]

----------------------------------------------------------------------------
(* Inputs *)

HomeArgs == {None} \cup Homes

InitFileArgs == {None, "/opt/custom_init.py", "/missing.py"}

ManFileArgs == {None, "/tmp/alt.1"}

AttrNames == {"load", "A", "bogus", "environ"}

ArgValues == {"x", "y"}

ArgSeqs == UNION {[1..n -> ArgValues] : n \in 0..MaxArgs}

KwArgs == {EmptyDict, [force |-> "y"]}

\* the variables other code of the process sets and unsets, and to what
EnvChanges ==
    { [name |-> "MODULESHOME", value |-> "/h3"],
      [name |-> "MODULESHOME", value |-> None],
      [name |-> "LOADEDMODULES", value |-> None] }

\* the environments a process may start with
StartEnvirons ==
    { [PATH |-> "/bin", FOO |-> "1"],
      [PATH |-> "/bin", FOO |-> "1", MODULESHOME |-> "/h1"] }

\* a manual page in another format: no section marker of either kind
ForeignManDoc == <<"Text", "OtherSH", "EntryA", "Text">>

\* every manual page of at most MaxFrags fragments
ManDocs ==
    UNION { [1..n -> {"SubHeader", "OtherSS", "EnvHeader", "OtherSH", "EntryA", "EntryBC", "Text"}] :
            n \in 0..MaxFrags }

NoWrapper == [obj |-> None, name |-> None]

----------------------------------------------------------------------------
(* Operations *)

\* obj = Module(home, init_file)
Construct(i, home, init_file) ==
    /\ ~Constructed(inst[i])
    /\ LET r == ModuleInit(osenv, coreGlobals, home, init_file)
       IN  /\ osenv' = r.environ
           /\ coreGlobals' = r.globals
           /\ inst' = IF r.exc = "none" THEN [inst EXCEPT ![i] = r.self] ELSE inst
           /\ ret' = [ op |-> "init", obj |-> i, home |-> home, init_file |-> init_file,
                       exc |-> r.exc, listed |-> r.listed, self |-> r.self, fs |-> r.fs ]
    /\ UNCHANGED <<cls, manDoc, held>>

\* obj.set_init_file(init_file)
SetInitFile(i, init_file) ==
    /\ Constructed(inst[i])
    /\ LET r == set_init_file(inst[i], init_file)
       IN  /\ inst' = [inst EXCEPT ![i] = r.self]
           /\ ret' = [ op |-> "set_init_file", obj |-> i, init_file |-> init_file,
                       exc |-> r.exc, listed |-> r.listed, self |-> r.self,
                       before |-> inst[i], fs |-> r.fs ]
    /\ UNCHANGED <<osenv, coreGlobals, cls, manDoc, held>>

\* obj.get_sub_commands(man_file)
GetSubCommands(i, man_file) ==
    /\ Constructed(inst[i])
    /\ LET r == get_sub_commands(inst[i], cls, man_file)
       IN  /\ inst' = [inst EXCEPT ![i] = r.self]
           /\ cls' = r.cls
           /\ ret' = [ op |-> "get_sub_commands", obj |-> i, man_file |-> man_file,
                       exc |-> r.exc ]
    /\ UNCHANGED <<osenv, coreGlobals, manDoc, held>>

\* obj.get_environment_variables(man_file)
GetEnvironmentVariables(i, man_file) ==
    /\ Constructed(inst[i])
    /\ LET r == get_environment_variables(inst[i], cls, man_file)
       IN  /\ inst' = [inst EXCEPT ![i] = r.self]
           /\ cls' = r.cls
           /\ ret' = [ op |-> "get_environment_variables", obj |-> i, man_file |-> man_file,
                       exc |-> r.exc ]
    /\ UNCHANGED <<osenv, coreGlobals, manDoc, held>>

\* obj.parse_man_file(man_file)
ParseManFile(i, man_file) ==
    /\ Constructed(inst[i])
    /\ LET r == parse_man_file(inst[i], cls, man_file)
       IN  /\ inst' = [inst EXCEPT ![i] = r.self]
           /\ cls' = r.cls
           /\ ret' = [ op |-> "parse_man_file", obj |-> i, man_file |-> man_file,
                       exc |-> r.exc ]
    /\ UNCHANGED <<osenv, coreGlobals, manDoc, held>>

\* f = obj.name
GetAttr(i, name) ==
    /\ Constructed(inst[i])
    /\ LET r == GetAttribute(inst[i], cls, name)
       IN  /\ held' = IF r.kind = "wrapper" THEN [obj |-> i, name |-> name] ELSE held
           /\ ret' = [ op |-> "getattr", obj |-> i, name |-> name, kind |-> r.kind,
                       named |-> r.name, invoked |-> <<>> ]
    /\ UNCHANGED <<osenv, coreGlobals, cls, inst, manDoc>>

\* f(*args, **kwargs) for the forwarding callable obtained last
Call(args, kwargs) ==
    /\ held # NoWrapper
    /\ LET r == wrapper(inst[held.obj], osenv, held.name, args, kwargs)
       IN  /\ osenv' = r.environ
           /\ ret' = [ op |-> "call", obj |-> held.obj, name |-> held.name,
                       args |-> args, kwargs |-> kwargs,
                       invoked |-> r.invoked, value |-> r.value ]
    /\ UNCHANGED <<coreGlobals, cls, inst, manDoc, held>>

\* obj.environ
Environ(i) ==
    /\ Constructed(inst[i])
    /\ ret' = [op |-> "environ", obj |-> i, view |-> environ(inst[i], cls, osenv)]
    /\ UNCHANGED <<osenv, coreGlobals, cls, inst, manDoc, held>>

\* other code of the process sets or deletes a variable in os.environ
ChangeEnv(c) ==
    /\ osenv' = IF c.value = None THEN Remove(osenv, c.name) ELSE Put(osenv, c.name, c.value)
    /\ osenv' # osenv
    /\ ret' = [op |-> "setenv", name |-> c.name]
    /\ UNCHANGED <<coreGlobals, cls, inst, manDoc, held>>

----------------------------------------------------------------------------
(* Specifications *)

\* a fresh process: easymod.core imported, no Module constructed
Init ==
    /\ osenv \in StartEnvirons
    /\ coreGlobals = EmptyDict
    /\ cls = ClassDict
    /\ inst = [i \in Objects |-> EmptyDict]
    /\ manDoc = ForeignManDoc
    /\ held = NoWrapper
    /\ ret = [op |-> "start"]

\* construction and init-file resolution
Next ==
    \/ \E i \in Objects, home \in HomeArgs, init_file \in InitFileArgs : Construct(i, home, init_file)
    \/ \E i \in Objects, init_file \in InitFileArgs : SetInitFile(i, init_file)
    \/ \E c \in EnvChanges : ChangeEnv(c)

Spec == Init /\ [][Next]_vars

\* the process after  m1 = Module("/h1")  and
\* m2 = Module(init_file="/opt/custom_init.py")
InitUse ==
    \E e \in StartEnvirons :
        LET r1 == ModuleInit(e, EmptyDict, "/h1", None)
            r2 == ModuleInit(r1.environ, r1.globals, None, "/opt/custom_init.py")
        IN  /\ osenv = r2.environ
            /\ coreGlobals = r2.globals
            /\ cls = ClassDict
            /\ inst = [m1 |-> r1.self, m2 |-> r2.self]
            /\ manDoc = ForeignManDoc
            /\ held = NoWrapper
            /\ ret = [op |-> "start"]

\* forwarding of sub-commands, with the sub-command sequence re-parsed at will
NextFacade ==
    \/ \E i \in Objects, man_file \in ManFileArgs : GetSubCommands(i, man_file)
    \/ \E i \in Objects, name \in AttrNames : GetAttr(i, name)
    \/ \E args \in ArgSeqs, kwargs \in KwArgs : Call(args, kwargs)

SpecFacade == InitUse /\ [][NextFacade]_vars

\* the environment view, with the environment changed by dispatcher
\* invocations and by other code, and the variable sequence re-parsed at will
NextEnviron ==
    \/ \E i \in Objects, man_file \in ManFileArgs : GetEnvironmentVariables(i, man_file)
    \/ \E i \in Objects : GetAttr(i, "load")
    \/ \E args \in ArgSeqs, kwargs \in KwArgs : Call(args, kwargs)
    \/ \E i \in Objects : Environ(i)
    \/ \E c \in EnvChanges : ChangeEnv(c)

SpecEnviron == InitUse /\ [][NextEnviron]_vars

\* the process after  m1 = Module("/h1")
InitDocs ==
    \E e \in StartEnvirons :
        LET r1 == ModuleInit(e, EmptyDict, "/h1", None)
        IN  /\ osenv = r1.environ
            /\ coreGlobals = r1.globals
            /\ cls = ClassDict
            /\ inst = [m1 |-> r1.self, m2 |-> EmptyDict]
            /\ manDoc = ForeignManDoc
            /\ held = NoWrapper
            /\ ret = [op |-> "start"]

\* documentation parsing on one object while another is constructed and used
NextDocs ==
    \/ \E i \in Objects, init_file \in InitFileArgs : Construct(i, None, init_file)
    \/ \E i \in Objects, man_file \in ManFileArgs : GetSubCommands(i, man_file)
    \/ \E i \in Objects, man_file \in ManFileArgs : GetEnvironmentVariables(i, man_file)
    \/ \E i \in Objects, man_file \in ManFileArgs : ParseManFile(i, man_file)
    \/ \E i \in Objects, name \in AttrNames : GetAttr(i, name)
    \/ \E i \in Objects : Environ(i)

SpecDocs == InitDocs /\ [][NextDocs]_vars

\* the process after  m1 = Module("/h1"),  with any manual page at /tmp/alt.1
InitParse ==
    \E e \in StartEnvirons :
        LET r1 == ModuleInit(e, EmptyDict, "/h1", None)
        IN  /\ osenv = r1.environ
            /\ coreGlobals = r1.globals
            /\ cls = ClassDict
            /\ inst = [m1 |-> r1.self, m2 |-> EmptyDict]
            /\ manDoc \in ManDocs
            /\ held = NoWrapper
            /\ ret = [op |-> "start"]

\* the parser run on any manual page
NextParse ==
    \/ \E i \in Objects, man_file \in ManFileArgs : GetSubCommands(i, man_file)
    \/ \E i \in Objects, man_file \in ManFileArgs : GetEnvironmentVariables(i, man_file)
    \/ \E i \in Objects, man_file \in ManFileArgs : ParseManFile(i, man_file)

SpecParse == InitParse /\ [][NextParse]_vars

----------------------------------------------------------------------------
(* Properties *)

\* the names found by normal attribute lookup on an object
Intrinsic(self) == ClassMembers \cup DOMAIN self

InSeq(x, seq) == \E k \in DOMAIN seq : seq[k] = x

\* C1: for a name of the object's current sub-command sequence that is not
\* an intrinsic member, the access returns a forwarding callable and invokes
\* nothing; a call of that callable invokes the object's dispatcher exactly
\* once, with the name first, then the caller's positional arguments in
\* order, and the same keyword arguments, and returns what the dispatcher
\* returned.
C1_ForwardedCall ==
    /\ ( /\ ret.op = "getattr"
         /\ ret.name \notin Intrinsic(inst[ret.obj])
         /\ InSeq(ret.name, Attr(inst[ret.obj], cls, "sub_commands")) )
       => /\ ret.kind = "wrapper"
          /\ held = [obj |-> ret.obj, name |-> ret.name]
          /\ ret.invoked = <<>>
    /\ ret.op = "call"
       => /\ Len(ret.invoked) = 1
          /\ ret.invoked[1].disp = inst[ret.obj].module
          /\ ret.invoked[1].pos = <<ret.name>> \o ret.args
          /\ ret.invoked[1].kw = ret.kwargs
          /\ ret.value = DispatcherReturn(ret.invoked[1].disp, ret.invoked[1].pos,
                                          ret.invoked[1].kw)

\* a call of a parsed sub-command with two different positional arguments
\* and a keyword argument has been forwarded
C1_Witness ==
    /\ ret.op = "call"
    /\ ret.name = "A"
    /\ ret.args = <<"x", "y">>
    /\ DOMAIN ret.kwargs = {"force"}

\* C2: for a name that is neither an intrinsic member nor in the object's
\* current sub-command sequence, the access raises AttributeError naming the
\* attribute and invokes no dispatcher.
C2_UnknownName ==
    ( /\ ret.op = "getattr"
      /\ ret.name \notin Intrinsic(inst[ret.obj])
      /\ ~InSeq(ret.name, Attr(inst[ret.obj], cls, "sub_commands")) )
    => /\ ret.kind = "AttributeError"
       /\ ret.named = ret.name
       /\ ret.invoked = <<>>

\* a default sub-command is refused once the re-parsed sequence lacks it
C2_Witness ==
    /\ ret.op = "getattr"
    /\ ret.name = "load"
    /\ ret.kind = "AttributeError"

\* the files below each home that match  **/init/*python*.py
Candidates(home) ==
    CASE home = "/h1" -> {"/h1/sub/init/modpython3.py"}
      [] home = "/h2" -> {"/h2/init/python.py", "/h2/init/envpython.py"}
      [] home = "/h3" -> {"/h3/init/python.py"}
      [] OTHER -> {}

\* the object set_init_file was called on, as it was before the call
BeforeSetInitFile ==
    IF ret.op = "set_init_file" THEN ret.before ELSE [modules_home |-> ret.self.modules_home]

\* C3: with no init-script path supplied, set_init_file searches below the
\* home directory: one match becomes init_file; no match raises
\* FileNotFoundError; several matches raise ValueError listing all of them
\* and init_file is not assigned.
C3_InitFileSearch ==
    ( /\ ret.op \in {"init", "set_init_file"}
      /\ ret.init_file = None
      /\ "modules_home" \in DOMAIN ret.self )
    => LET c == Candidates(ret.self.modules_home)
       IN  /\ <<[op |-> "glob", path |-> ret.self.modules_home]>> = SubSeq(ret.fs, 1, 1)
           /\ Cardinality(c) = 1
              => /\ ret.exc \notin {"FileNotFoundError", "ValueError"}
                 /\ "init_file" \in DOMAIN ret.self
                 /\ ret.self.init_file \in c
           /\ Cardinality(c) = 0
              => /\ ret.exc = "FileNotFoundError"
                 /\ ret.self = BeforeSetInitFile
           /\ Cardinality(c) > 1
              => /\ ret.exc = "ValueError"
                 /\ ret.listed = c
                 /\ ret.self = BeforeSetInitFile

\* an object that has an init file searched a home with two candidates
C3_Witness ==
    /\ ret.op = "set_init_file"
    /\ ret.init_file = None
    /\ ret.exc = "ValueError"
    /\ Cardinality(ret.listed) = 2
    /\ "init_file" \in DOMAIN ret.before

\* the init script of the last construction was executed
Executed == \E k \in DOMAIN ret.fs : ret.fs[k].op = "exec"

\* C4: a construction whose executed init script defines no function named
\* module fails with EnvironmentError and holds no dispatcher, whatever was
\* constructed before.
C4_NoDispatcherFails ==
    ( /\ ret.op = "init"
      /\ Executed
      /\ "module" \notin DOMAIN ScriptEffect(ret.self.init_file).defines )
    => /\ ret.exc = "EnvironmentError"
       /\ ~Constructed(ret.self)

\* this step is a call of op that read the manual file /tmp/alt.1
ParsedAlt(op) ==
    /\ ret'.op = op
    /\ ret'.exc = "none"
    /\ ret'.man_file = "/tmp/alt.1"

\* C5: when the manual text lacks a section's header marker, parsing that
\* section raises nothing and leaves the object's sequence for that section
\* as it was.
C5_MissingMarkerKeeps ==
    [][ /\ ( ParsedAlt("get_sub_commands") /\ ~InSeq("SubHeader", manDoc) )
           => Attr(inst'[ret'.obj], cls', "sub_commands")
                = Attr(inst[ret'.obj], cls, "sub_commands")
        /\ ( ParsedAlt("get_environment_variables") /\ ~InSeq("EnvHeader", manDoc) )
           => Attr(inst'[ret'.obj], cls', "envinronment_variables")
                = Attr(inst[ret'.obj], cls, "envinronment_variables") ]_vars

\* the entries of the sub-commands section of a manual page: the entry
\* fragments between the sub-commands header and the next header
SectionEntries(doc) ==
    LET p == CHOOSE k \in DOMAIN doc : doc[k] = "SubHeader"
        stops == {k \in (p + 1)..Len(doc) : doc[k] \in Headers}
        q == IF stops = {} THEN Len(doc) + 1 ELSE SetMin(stops)
        entries == SelectSeq(SubSeq(doc, p + 1, q - 1), LAMBDA f : f \in DOMAIN EntryToken)
    IN  [k \in DOMAIN entries |-> EntryToken[entries[k]]]

\* C6: for a manual text with a sub-commands section, get_sub_commands sets
\* the sequence to exactly the entries of that section, in order, whatever
\* precedes or follows the section.
C6_SectionEntries ==
    ( /\ ret.op = "get_sub_commands"
      /\ ret.exc = "none"
      /\ ret.man_file = "/tmp/alt.1"
      /\ Cardinality({k \in DOMAIN manDoc : manDoc[k] = "SubHeader"}) = 1 )
    => inst[ret.obj].sub_commands = SectionEntries(manDoc)

\* C7: the keys of the environ mapping are names of the object's current
\* environment-variable sequence that are set in the process environment.
C7_ViewKeys ==
    \A i \in Objects :
        Constructed(inst[i])
        => \A n \in DOMAIN environ(inst[i], cls, osenv) :
              /\ InSeq(n, Attr(inst[i], cls, "envinronment_variables"))
              /\ n \in DOMAIN osenv

\* a listed variable is unset, a set variable is not listed, and the view
\* of the object is not empty
C7_Witness ==
    /\ Constructed(inst["m1"])
    /\ "MODULESHOME" \notin DOMAIN osenv
    /\ InSeq("MODULESHOME", Attr(inst["m1"], cls, "envinronment_variables"))
    /\ "PATH" \in DOMAIN osenv
    /\ DOMAIN environ(inst["m1"], cls, osenv) = {"LOADEDMODULES"}

\* C8: with no home argument and MODULESHOME unset, construction raises
\* ValueError naming MODULESHOME and touches neither the filesystem nor any
\* init script, whether or not an init_file was supplied.
C8_NoHomeNoAccess ==
    [][ ( /\ ret'.op = "init"
          /\ ret'.home = None
          /\ "MODULESHOME" \notin DOMAIN osenv )
        => /\ ret'.exc = "ValueError"
           /\ ret'.listed = {"MODULESHOME"}
           /\ ret'.fs = <<>>
           /\ UNCHANGED <<osenv, coreGlobals, inst>> ]_vars

\* a construction with an init_file but no home failed on MODULESHOME
C8_Witness ==
    /\ ret.op = "init"
    /\ ret.home = None
    /\ ret.init_file = "/opt/custom_init.py"
    /\ ret.exc = "ValueError"
    /\ ret.listed = {"MODULESHOME"}

\* C9: each access to environ returns the mapping of the currently set
\* names of the current environment-variable sequence to their values in
\* the process environment at that access.
C9_ViewIsLive ==
    ret.op = "environ"
    => LET seq == Attr(inst[ret.obj], cls, "envinronment_variables")
       IN  /\ DOMAIN ret.view = {n \in DOMAIN osenv : InSeq(n, seq)}
           /\ \A n \in DOMAIN ret.view : ret.view[n] = osenv[n]

\* an access after other code changed MODULESHOME and a dispatcher set
\* LOADEDMODULES
C9_Witness ==
    /\ ret.op = "environ"
    /\ "MODULESHOME" \in DOMAIN ret.view
    /\ ret.view["MODULESHOME"] = "/h3"
    /\ "LOADEDMODULES" \in DOMAIN ret.view

ParseOps == {"get_sub_commands", "get_environment_variables", "parse_man_file"}

\* C10: parsing on one object leaves the class-level lists as they are and
\* every other object untouched; an object that has not parsed resolves
\* names and builds its view against the class defaults.
C10_PerInstance ==
    /\ [](cls = ClassDict)
    /\ [](\A j \in Objects :
            Constructed(inst[j])
            => /\ "sub_commands" \notin DOMAIN inst[j]
                  => \A n \in AttrNames \ Intrinsic(inst[j]) :
                        (GetAttribute(inst[j], cls, n).kind = "wrapper")
                          = InSeq(n, DefaultSubCommands)
               /\ "envinronment_variables" \notin DOMAIN inst[j]
                  => DOMAIN environ(inst[j], cls, osenv)
                       = {n \in DOMAIN osenv : InSeq(n, DefaultEnvironmentVariables)})
    /\ [][ ret'.op \in ParseOps
           => \A j \in Objects \ {ret'.obj} : inst'[j] = inst[j] ]_vars

\* one object has parsed the manual; another, which has not, still forwards
\* a default sub-command
C10_Witness ==
    /\ Constructed(inst["m1"])
    /\ "sub_commands" \in DOMAIN inst["m1"]
    /\ inst["m1"].sub_commands = <<"A", "B-C">>
    /\ "sub_commands" \notin DOMAIN inst["m2"]
    /\ ret.op = "getattr"
    /\ ret.obj = "m2"
    /\ ret.name = "load"
    /\ ret.kind = "wrapper"

====
